---- MODULE Spec2Model ----
(***************************************************************************)
(* Model of src/src/prediction/predictor_model.py: the Forecaster wrapper  *)
(* (one AutoARIMA model per series of a panel), its parallel fit, its      *)
(* predict, and its joblib persistence.                                    *)
(*                                                                         *)
(* A panel (pandas DataFrame) is a sequence of rows.  Row k carries the    *)
(* identifier panel[k]; its remaining columns (time, target, covariates)   *)
(* are represented by the row's index k, so the series of two identifiers  *)
(* are always distinguishable.                                             *)
(***************************************************************************)
EXTENDS Integers, Sequences, FiniteSets, TLC

\* ---------------------------------------------------------------- bounds
MaxId == 2
MaxRows == 2
FitMaxId == 3
FitMaxRows == 3
MaxCpus == 3
MaxHorizon == 2
MaxRatio == 1

\* ------------------------------------------------------ program constants
NUM_CPUS_PER_BATCH == 1

\* --------------------------------------------------------------- inputs
Panels(maxRows, maxId) == UNION {[1..n -> 1..maxId] : n \in 0..maxRows}

Schemas == {[forecast_length |-> h] : h \in 1..MaxHorizon}

\* history_forecast_ratio: 0 stands for None (both are falsy in the code)
Ratios == 0..MaxRatio

PredictionCols == {"prediction"}

\* ------------------------------------------------------- pure helpers
Range(s) == {s[i] : i \in 1..Len(s)}

Max(a, b) == IF a >= b THEN a ELSE b

Min(a, b) == IF a <= b THEN a ELSE b

MinOf(S) == CHOOSE x \in S : \A y \in S : x <= y

RECURSIVE SortedSeq(_)
SortedSeq(S) == IF S = {} THEN <<>>
                ELSE LET m == MinOf(S) IN <<m>> \o SortedSeq(S \ {m})

\* keys found in the panel in the order of their first row
RECURSIVE FirstSeen(_)
FirstSeen(panel) ==
  IF Len(panel) = 0 THEN <<>>
  ELSE LET init == FirstSeen(SubSeq(panel, 1, Len(panel) - 1))
           x == panel[Len(panel)]
       IN IF x \in Range(init) THEN init ELSE Append(init, x)

GroupKeysUnsorted(panel) == FirstSeen(panel)

\* list(history.groupby(id_col).groups.keys()): groupby sorts the group keys
\* (sort=True is the default), so the keys come out in ascending order
GroupKeys(panel) == SortedSeq(Range(panel))

RECURSIVE RowsOf(_, _, _)
RowsOf(panel, id, k) ==
  IF k > Len(panel) THEN <<>>
  ELSE (IF panel[k] = id THEN <<k>> ELSE <<>>) \o RowsOf(panel, id, k + 1)

\* groups_by_ids.get_group(id_).drop(columns=id_col): the rows of id_, in
\* panel order, without the identifier column (KeyError when there is none:
\* the callers test HasGroup)
GetGroup(panel, id) == RowsOf(panel, id, 1)

HasGroup(panel, id) == id \in Range(panel)

\* CPUS_TO_USE = max(1, cpu_count() - 1)
CpusToUse(cpus) == Max(1, cpus - 1)

SeriesPerBatchNoSlack(n, num_parallel_batches) ==
  IF n <= num_parallel_batches THEN 1
  ELSE Max(1, n \div num_parallel_batches)

SeriesPerBatch(n, num_parallel_batches) ==
  IF n <= num_parallel_batches THEN 1
  ELSE 1 + (n \div num_parallel_batches)

BatchesMisaligned(xs, per_batch) ==
  LET count == (Len(xs) + per_batch - 1) \div per_batch
  IN [i \in 1..count |->
        SubSeq(xs, Max(1, (i - 1) * per_batch), Min(i * per_batch, Len(xs)))]

\* [xs[i : i + per_batch] for i in range(0, len(xs), per_batch)]
Batches(xs, per_batch) ==
  LET count == (Len(xs) + per_batch - 1) \div per_batch
  IN [i \in 1..count |->
        SubSeq(xs, (i - 1) * per_batch + 1, Min(i * per_batch, Len(xs)))]

\* series[-history_length:] when history_length is truthy
Truncate(series, history_length) ==
  IF history_length = 0 THEN series
  ELSE SubSeq(series, Max(1, Len(series) - history_length + 1), Len(series))

\* _fit_on_series: the trained AutoARIMA model is an opaque artifact that is
\* determined by the series it was fitted on
FitOnSeries(series) == [fitted_on |-> series]

\* model.predict(n): the n forecast values of a trained model
ModelPredict(model, n) == [i \in 1..n |-> [model |-> model, step |-> i]]

EmptyModels == [id \in {} |-> FitOnSeries(<<>>)]

\* fit_batch_of_series on a batch whose series all fit
FitBatchOfSeries(series_batch, ids_batch, history_length) ==
  [id \in Range(ids_batch) |->
     LET j == CHOOSE j \in 1..Len(ids_batch) : ids_batch[j] = id
     IN FitOnSeries(Truncate(series_batch[j], history_length))]

MergeBatch(acc, batch) ==
  [k \in (DOMAIN acc) \cup (DOMAIN batch) |->
     IF k \in DOMAIN batch THEN batch[k] ELSE acc[k]]

RECURSIVE FlattenUpTo(_, _)
FlattenUpTo(results, n) ==
  IF n = 0 THEN EmptyModels
  ELSE MergeBatch(FlattenUpTo(results, n - 1), results[n])

FlattenLastOnly(results) ==
  IF Len(results) = 0 THEN EmptyModels ELSE results[Len(results)]

\* {id: model for batch in results for id, model in batch.items()}
Flatten(results) == FlattenUpTo(results, Len(results))

\* ------------------------------------------------------ the Forecaster
\* Forecaster.__init__.  all_ids is not an attribute of a fresh object (fit
\* creates it): <<>> stands for the missing attribute while _is_trained is
\* FALSE.  history_length 0 stands for None.
NewForecaster(data_schema, history_forecast_ratio) ==
  [data_schema |-> data_schema,
   history_forecast_ratio |-> history_forecast_ratio,
   _is_trained |-> FALSE,
   add_encoders |-> "None",
   models |-> EmptyModels,
   autoarima_kwargs |-> <<>>,
   history_length |-> IF history_forecast_ratio # 0
                      THEN data_schema.forecast_length * history_forecast_ratio
                      ELSE 0,
   all_ids |-> <<>>]

FitAssignKeepOld(e, results, ids, data_schema) ==
  [e EXCEPT !.models = MergeBatch(e.models, Flatten(results)),
            !.all_ids = ids,
            !._is_trained = TRUE,
            !.data_schema = data_schema]

\* the assignments that end a successful fit
FitAssign(e, results, ids, data_schema) ==
  [e EXCEPT !.models = Flatten(results),
            !.all_ids = ids,
            !._is_trained = TRUE,
            !.data_schema = data_schema]

StarmapNeverRaises(tasks) == FALSE

\* pool.starmap re-raises a worker's exception once every task has ended
StarmapRaises(tasks) == \E b \in 1..Len(tasks) : tasks[b] = "failed"

\* the forecast rows of one identifier: its future rows with the target
\* column overwritten by the model's forecast, the identifier re-attached
\* and the target column renamed
ForecastBlock(e, test_data, id, col) ==
  LET rows == GetGroup(test_data, id)
      preds == ModelPredict(e.models[id], Len(rows))
  IN [j \in 1..Len(rows) |->
        [id |-> id, row |-> rows[j], col |-> col, value |-> preds[j]]]

RECURSIVE ConcatBlocks(_, _, _, _)
ConcatBlocks(e, test_data, col, k) ==
  IF k > Len(e.all_ids) THEN <<>>
  ELSE ForecastBlock(e, test_data, e.all_ids[k], col)
       \o ConcatBlocks(e, test_data, col, k + 1)

Raised(exc, keys) == [outcome |-> exc, out |-> <<>>, lookups |-> keys]

\* Forecaster.predict: the outcome (ok or the exception raised), the table
\* returned and the keys looked up in self.models
Predict(e, test_data, col) ==
  IF ~e._is_trained THEN Raised("NotFittedError", <<>>)
  ELSE IF \E k \in 1..Len(e.all_ids) : ~HasGroup(test_data, e.all_ids[k])
  THEN Raised("KeyError", <<>>)
  ELSE IF \E k \in 1..Len(e.all_ids) : e.all_ids[k] \notin DOMAIN e.models
  THEN LET k == CHOOSE k \in 1..Len(e.all_ids) :
                  /\ e.all_ids[k] \notin DOMAIN e.models
                  /\ \A j \in 1..(k - 1) : e.all_ids[j] \in DOMAIN e.models
       IN Raised("AttributeError", SubSeq(e.all_ids, 1, k))
  ELSE IF Len(e.all_ids) = 0 THEN Raised("ValueError", <<>>)
  ELSE [outcome |-> "ok",
        out |-> ConcatBlocks(e, test_data, col, 1),
        lookups |-> e.all_ids]

Attr(blob, name) ==
  blob[CHOOSE i \in 1..Len(blob) : blob[i][1] = name][2]

PickleWithoutIds(e) ==
  << <<"data_schema", e.data_schema>>,
     <<"history_forecast_ratio", e.history_forecast_ratio>>,
     <<"_is_trained", e._is_trained>>,
     <<"add_encoders", e.add_encoders>>,
     <<"models", e.models>>,
     <<"autoarima_kwargs", e.autoarima_kwargs>>,
     <<"history_length", e.history_length>>,
     <<"all_ids", <<>> >> >>

\* joblib.dump(self, ...): the instance's attributes, name by name
Pickle(e) ==
  << <<"data_schema", e.data_schema>>,
     <<"history_forecast_ratio", e.history_forecast_ratio>>,
     <<"_is_trained", e._is_trained>>,
     <<"add_encoders", e.add_encoders>>,
     <<"models", e.models>>,
     <<"autoarima_kwargs", e.autoarima_kwargs>>,
     <<"history_length", e.history_length>>,
     <<"all_ids", e.all_ids>> >>

\* joblib.load(...): an instance rebuilt from the attributes in the file
Unpickle(blob) ==
  [data_schema |-> Attr(blob, "data_schema"),
   history_forecast_ratio |-> Attr(blob, "history_forecast_ratio"),
   _is_trained |-> Attr(blob, "_is_trained"),
   add_encoders |-> Attr(blob, "add_encoders"),
   models |-> Attr(blob, "models"),
   autoarima_kwargs |-> Attr(blob, "autoarima_kwargs"),
   history_length |-> Attr(blob, "history_length"),
   all_ids |-> Attr(blob, "all_ids")]

NoFile == <<>>

\* ---------------------------------------------------------------- state
VARIABLES
  n_cpus,          \* cpu_count() of the host
  ens,             \* the Forecaster the caller holds
  dir_exists,      \* the predictor directory exists
  disk,            \* content of predictor.joblib (NoFile: no such file)
  pc,              \* "idle", or where the running fit stands
  call,            \* the most recent operation called
  arg,             \* the panel passed to it (<<>> when it takes none)
  outcome,         \* "ok", or the exception it raised; "running" during fit
  out,             \* the forecast table predict returned
  lookups,         \* the keys predict looked up in self.models
  fit_schema,      \* fit's data_schema argument
  all_ids,         \* fit's local all_ids
  all_series,      \* fit's local all_series
  id_batches,      \* fit's local id_batches
  series_batches,  \* fit's local series_batches
  tasks,           \* the pool's tasks, one per batch
  results          \* the partial mappings the tasks returned

vars == <<n_cpus, ens, dir_exists, disk, pc, call, arg, outcome, out, lookups,
          fit_schema, all_ids, all_series, id_batches, series_batches, tasks,
          results>>

fit_locals == <<fit_schema, all_ids, all_series, id_batches, series_batches,
                tasks, results>>

host == <<n_cpus>>

files == <<dir_exists, disk>>

CPUS_TO_USE == CpusToUse(n_cpus)

NoSchema == [forecast_length |-> 0]

ClearFitLocals ==
  /\ fit_schema' = NoSchema
  /\ all_ids' = <<>>
  /\ all_series' = <<>>
  /\ id_batches' = <<>>
  /\ series_batches' = <<>>
  /\ tasks' = <<>>
  /\ results' = <<>>

InitWith(schemas, ratios) ==
  /\ n_cpus \in 1..MaxCpus
  /\ \E s \in schemas, r \in ratios : ens = NewForecaster(s, r)
  /\ dir_exists = FALSE
  /\ disk = NoFile
  /\ pc = "idle"
  /\ call = "construct"
  /\ arg = <<>>
  /\ outcome = "ok"
  /\ out = <<>>
  /\ lookups = <<>>
  /\ fit_schema = NoSchema
  /\ all_ids = <<>>
  /\ all_series = <<>>
  /\ id_batches = <<>>
  /\ series_batches = <<>>
  /\ tasks = <<>>
  /\ results = <<>>

Init == InitWith(Schemas, Ratios)

\* -------------------------------------------------------------- actions
\* Forecaster(data_schema, history_forecast_ratio=...)
Construct(data_schema, ratio) ==
  /\ pc = "idle"
  /\ ens' = NewForecaster(data_schema, ratio)
  /\ call' = "construct"
  /\ arg' = <<>>
  /\ outcome' = "ok"
  /\ out' = <<>>
  /\ lookups' = <<>>
  /\ UNCHANGED <<host, files, pc, fit_locals>>

\* Forecaster.fit up to the pool: group the panel, build the batches
Partition(history, data_schema) ==
  LET ids == GroupKeys(history)
      series == [i \in 1..Len(ids) |-> GetGroup(history, ids[i])]
      num_parallel_batches == CPUS_TO_USE \div NUM_CPUS_PER_BATCH
      series_per_batch == SeriesPerBatch(Len(ids), num_parallel_batches)
  IN /\ fit_schema' = data_schema
     /\ all_ids' = ids
     /\ all_series' = series
     /\ series_batches' = Batches(series, series_per_batch)
     /\ id_batches' = Batches(ids, series_per_batch)
     /\ tasks' = <<>>
     /\ results' = <<>>
     /\ arg' = history
     /\ outcome' = "running"
     /\ out' = <<>>
     /\ lookups' = <<>>
     /\ pc' = "partitioned"

\* model.fit(history, data_schema) on the Forecaster the caller holds
FitBegin(history, data_schema) ==
  /\ pc = "idle"
  /\ Partition(history, data_schema)
  /\ call' = "fit"
  /\ UNCHANGED <<host, files, ens>>

\* train_predictor_model: a new Forecaster, then its fit
TrainPredictorModel(history, data_schema, ratio) ==
  /\ pc = "idle"
  /\ ens' = NewForecaster(data_schema, ratio)
  /\ Partition(history, data_schema)
  /\ call' = "train"
  /\ UNCHANGED <<host, files>>

\* Pool(processes=len(series_batches)): ValueError when there is no batch
PoolOpen ==
  /\ pc = "partitioned"
  /\ IF Len(series_batches) < 1
     THEN /\ outcome' = "ValueError"
          /\ pc' = "idle"
          /\ ClearFitLocals
     ELSE /\ tasks' = [b \in 1..Len(series_batches) |-> "pending"]
          /\ results' = [b \in 1..Len(series_batches) |-> EmptyModels]
          /\ pc' = "pool"
          /\ UNCHANGED <<outcome, fit_schema, all_ids, all_series, id_batches,
                         series_batches>>
  /\ UNCHANGED <<host, files, ens, call, arg, out, lookups>>

\* a pool worker takes the task of batch b
WorkerStart(b) ==
  /\ pc = "pool"
  /\ tasks[b] = "pending"
  /\ tasks' = [tasks EXCEPT ![b] = "running"]
  /\ UNCHANGED <<host, files, ens, pc, call, arg, outcome, out, lookups,
                 fit_schema, all_ids, all_series, id_batches, series_batches,
                 results>>

\* fit_batch_of_series returns the batch's partial mapping
WorkerFinish(b) ==
  /\ pc = "pool"
  /\ tasks[b] = "running"
  /\ tasks' = [tasks EXCEPT ![b] = "done"]
  /\ results' = [results EXCEPT ![b] =
                   FitBatchOfSeries(series_batches[b], id_batches[b],
                                    ens.history_length)]
  /\ UNCHANGED <<host, files, ens, pc, call, arg, outcome, out, lookups,
                 fit_schema, all_ids, all_series, id_batches, series_batches>>

\* the fitting primitive raises on a series of batch b: the task fails and
\* its partial mapping is lost with the worker's frame
WorkerFail(b) ==
  /\ pc = "pool"
  /\ tasks[b] = "running"
  /\ tasks' = [tasks EXCEPT ![b] = "failed"]
  /\ UNCHANGED <<host, files, ens, pc, call, arg, outcome, out, lookups,
                 fit_schema, all_ids, all_series, id_batches, series_batches,
                 results>>

\* starmap returns once every task has ended; fit then assigns, or the
\* exception leaves fit before any assignment
FitJoin ==
  /\ pc = "pool"
  /\ \A b \in 1..Len(tasks) : tasks[b] \in {"done", "failed"}
  /\ IF StarmapRaises(tasks)
     THEN /\ outcome' = "FitFailure"
          /\ ens' = ens
     ELSE /\ outcome' = "ok"
          /\ ens' = FitAssign(ens, results, all_ids, fit_schema)
  /\ pc' = "idle"
  /\ ClearFitLocals
  /\ UNCHANGED <<host, files, call, arg, out, lookups>>

\* predict_with_model
PredictWithModel(test_data, prediction_col_name) ==
  /\ pc = "idle"
  /\ LET r == Predict(ens, test_data, prediction_col_name)
     IN /\ outcome' = r.outcome
        /\ out' = r.out
        /\ lookups' = r.lookups
  /\ call' = "predict"
  /\ arg' = test_data
  /\ UNCHANGED <<host, files, ens, pc, fit_locals>>

SaveUnchecked(e, file) == Pickle(e)

\* Forecaster.save: the file's content after the call
Save(e, file) == IF ~e._is_trained THEN file ELSE Pickle(e)

\* save_predictor_model: makedirs, then Forecaster.save
SavePredictorModel ==
  /\ pc = "idle"
  /\ dir_exists' = TRUE
  /\ disk' = Save(ens, disk)
  /\ outcome' = IF ~ens._is_trained THEN "NotFittedError" ELSE "ok"
  /\ call' = "save"
  /\ arg' = <<>>
  /\ out' = <<>>
  /\ lookups' = <<>>
  /\ UNCHANGED <<host, ens, pc, fit_locals>>

\* Forecaster.load: the object the caller holds after the call
Load(e, file) == IF file = NoFile THEN e ELSE Unpickle(file)

\* load_predictor_model: the caller now holds the loaded Forecaster
LoadPredictorModel ==
  /\ pc = "idle"
  /\ ens' = Load(ens, disk)
  /\ outcome' = IF disk = NoFile THEN "FileNotFoundError" ELSE "ok"
  /\ call' = "load"
  /\ arg' = <<>>
  /\ out' = <<>>
  /\ lookups' = <<>>
  /\ UNCHANGED <<host, files, pc, fit_locals>>

Next ==
  \/ \E s \in Schemas, r \in Ratios : Construct(s, r)
  \/ \E h \in Panels(MaxRows, MaxId), s \in Schemas : FitBegin(h, s)
  \/ \E h \in Panels(MaxRows, MaxId), s \in Schemas, r \in Ratios :
       TrainPredictorModel(h, s, r)
  \/ PoolOpen
  \/ \E b \in 1..Len(tasks) : WorkerStart(b)
  \/ \E b \in 1..Len(tasks) : WorkerFinish(b)
  \/ \E b \in 1..Len(tasks) : WorkerFail(b)
  \/ FitJoin
  \/ \E f \in Panels(MaxRows, MaxId), c \in PredictionCols :
       PredictWithModel(f, c)
  \/ SavePredictorModel
  \/ LoadPredictorModel

Spec == Init /\ [][Next]_vars

\* one training run on a larger panel: a process that calls
\* train_predictor_model once
NextFit ==
  \/ \E h \in Panels(FitMaxRows, FitMaxId), s \in Schemas, r \in Ratios :
       call = "construct" /\ TrainPredictorModel(h, s, r)
  \/ PoolOpen
  \/ \E b \in 1..Len(tasks) : WorkerStart(b)
  \/ \E b \in 1..Len(tasks) : WorkerFinish(b)
  \/ \E b \in 1..Len(tasks) : WorkerFail(b)
  \/ FitJoin

SpecFit == Init /\ [][NextFit]_vars

\* ------------------------------------------------------------ properties
IsCall(name) == pc = "idle" /\ call = name

FitReturned == pc = "idle" /\ call \in {"fit", "train"}

\* the identifiers of a forecast table, block by block
RECURSIVE BlockOrder(_)
BlockOrder(table) ==
  IF Len(table) = 0 THEN <<>>
  ELSE LET init == BlockOrder(SubSeq(table, 1, Len(table) - 1))
           x == table[Len(table)].id
       IN IF Len(init) > 0 /\ init[Len(init)] = x THEN init
          ELSE Append(init, x)

Ascending(s) == \A i, j \in 1..Len(s) : i < j => s[i] < s[j]

\* C1: predict on a trained ensemble never raises, and returns exactly the
\* future rows of the identifiers that are both trained and queried
C1_MissingIdsSkipped ==
  (IsCall("predict") /\ ens._is_trained) =>
    /\ outcome = "ok"
    /\ Len(out) = Cardinality({k \in 1..Len(arg) : arg[k] \in DOMAIN ens.models})
    /\ \A i \in 1..Len(out) :
         out[i].id \in (DOMAIN ens.models) \cap Range(arg)

\* C2: predict and save on an untrained ensemble raise NotFittedError, with
\* no model looked up, no table returned and the file left as it was
C2_UntrainedRaises ==
  [][(pc = "idle" /\ pc' = "idle" /\ call' \in {"predict", "save"}
      /\ ~ens._is_trained)
     => (/\ outcome' = "NotFittedError"
         /\ lookups' = <<>>
         /\ out' = <<>>
         /\ disk' = disk
         /\ ens' = ens)]_vars

C2_Witness ==
  /\ IsCall("save")
  /\ outcome = "NotFittedError"
  /\ ~ens._is_trained
  /\ disk # NoFile

\* C3: when the fitting primitive raises in some batch, fit raises and the
\* ensemble is what it was before the call; no step of a fit that does not
\* end well changes the ensemble, and a failed train leaves no trained one
C3_FitFailureAtomic ==
  [][/\ (pc = "pool" /\ pc' = "idle"
          /\ \E b \in 1..Len(tasks) : tasks[b] = "failed")
        => (outcome' = "FitFailure" /\ ens' = ens)
     /\ (pc \in {"partitioned", "pool"} /\ ~(pc' = "idle" /\ outcome' = "ok"))
        => ens' = ens
     /\ (pc = "idle" /\ pc' = "partitioned" /\ call' = "fit") => ens' = ens
     /\ (pc = "idle" /\ pc' = "partitioned" /\ call' = "train")
        => (~ens'._is_trained /\ DOMAIN ens'.models = {})
     /\ (pc' = "idle" /\ call' = "train" /\ outcome' = "FitFailure")
        => ~ens'._is_trained]_vars

C3_Witness ==
  /\ IsCall("fit")
  /\ outcome = "FitFailure"
  /\ ens._is_trained
  /\ \E id \in Range(arg) : id \notin DOMAIN ens.models

C5_EmptyPanelFits ==
  (FitReturned /\ Len(arg) = 0) =>
    /\ outcome = "ok"
    /\ ens._is_trained
    /\ DOMAIN ens.models = {}

\* C6: the batches hold every identifier exactly once, there are at most
\* max(N, 1) of them, and the j-th series of a batch is the series of the
\* j-th identifier of the same batch
C6_PartitionConservation ==
  (pc \in {"partitioned", "pool"}) =>
    LET N == Cardinality(Range(arg))
        at(id) == {<<i, j>> \in (1..Len(id_batches)) \X (1..N) :
                     j <= Len(id_batches[i]) /\ id_batches[i][j] = id}
        sizes == [i \in 1..Len(id_batches) |-> Len(id_batches[i])]
    IN /\ Len(all_ids) = N
       /\ Cardinality({<<i, j>> \in (1..Len(id_batches)) \X (1..N) :
                         j <= sizes[i]}) = N
       /\ \A i \in 1..Len(id_batches) : sizes[i] >= 1
       /\ Len(id_batches) <= Max(N, 1)
       /\ Len(series_batches) = Len(id_batches)
       /\ \A id \in Range(arg) : Cardinality(at(id)) = 1
       /\ \A i \in 1..Len(id_batches) :
            /\ Len(series_batches[i]) = Len(id_batches[i])
            /\ \A j \in 1..Len(id_batches[i]) :
                 series_batches[i][j] = GetGroup(arg, id_batches[i][j])

C6_Witness ==
  /\ pc = "pool"
  /\ Len(id_batches) = 2
  /\ Len(id_batches[1]) = 2
  /\ Len(id_batches[2]) = 1

\* C7: with N >= 1 identifiers and W = max(1, cpu_count - 1), no batch is
\* longer than B (1 when N <= W, else 1 + N div W) and neither the number
\* of batches nor the pool's size exceeds W
C7_WorkerBudgetCap ==
  (pc \in {"partitioned", "pool"} /\ Len(all_ids) >= 1) =>
    LET N == Len(all_ids)
        W == IF n_cpus - 1 >= 1 THEN n_cpus - 1 ELSE 1
        B == IF N <= W THEN 1 ELSE 1 + (N \div W)
    IN /\ \A i \in 1..Len(series_batches) : Len(series_batches[i]) <= B
       /\ \A i \in 1..(Len(series_batches) - 1) : Len(series_batches[i]) = B
       /\ Len(series_batches) <= W
       /\ pc = "pool" => Len(tasks) = Len(series_batches)
       /\ Len(tasks) <= W

C7_Witness ==
  /\ pc = "pool"
  /\ Len(all_ids) = 3
  /\ CPUS_TO_USE = 2
  /\ Len(tasks) = 2

\* C8 as claimed: fit stores the identifiers in the order of their first
\* row in the panel, and predict emits its blocks in the stored order
C8_FirstSeenOrder ==
  /\ (FitReturned /\ outcome = "ok") => ens.all_ids = FirstSeen(arg)
  /\ (IsCall("predict") /\ outcome = "ok") => BlockOrder(out) = ens.all_ids

\* C8 amended: fit stores the distinct identifiers of the panel in ascending
\* order, and every table predict returns has its blocks in the stored order
C8_SortedOrder ==
  /\ (FitReturned /\ outcome = "ok") =>
       (Ascending(ens.all_ids) /\ Range(ens.all_ids) = Range(arg))
  /\ (IsCall("predict") /\ outcome = "ok") => BlockOrder(out) = ens.all_ids

C8_Witness ==
  /\ FitReturned
  /\ outcome = "ok"
  /\ Len(arg) = 2
  /\ arg[1] > arg[2]

\* C9: whatever the order in which the tasks start and end, fit assigns only
\* once every task is done, and the mapping it assigns holds, for each
\* identifier of the panel and no other, the model fitted on its own series
C9_ForkJoinMerge ==
  [][/\ (pc = "pool" /\ (ens' # ens \/ (pc' = "idle" /\ outcome' = "ok")))
        => (/\ \A b \in 1..Len(tasks) : tasks[b] = "done"
            /\ ens'._is_trained
            /\ DOMAIN ens'.models = Range(arg)
            /\ \A id \in Range(arg) :
                 ens'.models[id] =
                   [fitted_on |-> Truncate(GetGroup(arg, id),
                                           ens.history_length)])
     /\ (pc = "partitioned") => ens' = ens]_vars

C9_Witness ==
  /\ IsCall("train")
  /\ outcome = "ok"
  /\ CPUS_TO_USE = 2
  /\ Cardinality(DOMAIN ens.models) = 3

LifecycleInv(e) ==
  \/ ~e._is_trained /\ DOMAIN e.models = {}
  \/ e._is_trained /\ DOMAIN e.models = Range(e.all_ids)

\* C10: the ensemble is untrained with an empty mapping, or trained with a
\* mapping whose keys are the identifiers of its list, which a successful
\* fit takes from its own panel; predict and save leave the ensemble alone
C10_Lifecycle ==
  /\ LifecycleInv(ens)
  /\ [][/\ LifecycleInv(ens')
        /\ (pc = "pool" /\ pc' = "idle" /\ outcome' = "ok")
           => (ens'._is_trained /\ Range(ens'.all_ids) = Range(arg))
        /\ (pc = "idle" /\ pc' = "idle" /\ call' \in {"predict", "save"})
           => ens' = ens]_vars

C10_Witness ==
  /\ IsCall("fit")
  /\ outcome = "ok"
  /\ disk # NoFile
  /\ Range(ens.all_ids) # Range(Unpickle(disk).all_ids)
  /\ Range(ens.all_ids) \cap Range(Unpickle(disk).all_ids) # {}

====
